---------------------------- MODULE Spec2Model ----------------------------
(***************************************************************************)
(* A model of qpy/portfolio.py: the class Portfolio (addStock,             *)
(* _addStockData, the totalinvestment property, compWeights,               *)
(* compExpectedReturn, compVolatility, compSharpe) and the builder         *)
(* functions (buildPortfolio, _buildPortfolioFromDf, _getStocksDataColumns,*)
(* _stocknamesInDataColumns).                                              *)
(*                                                                         *)
(* Representation.                                                         *)
(*  - A Python str is a tuple of one-character strings, so that `in`       *)
(*    (substring), startswith, + and replace are computed, not assumed.    *)
(*  - A pandas.DataFrame is a record [index, columns, values]: the index   *)
(*    labels, the column labels, and one tuple of cell values per column.  *)
(*  - A real number is an exact fraction <<n, d>>, d > 0, in lowest terms. *)
(*    A square root is kept symbolically as [sqrtOf |-> q] and a quotient  *)
(*    by a square root as [num |-> q, den |-> r].                          *)
(*  - A Python object is a record with a field type; None is              *)
(*    [type |-> "NoneType"].                                               *)
(*  - A raised exception is a string naming the raise site ("none" when    *)
(*    the call returned). The source raises ValueError at each of its own  *)
(*    raise sites; the site is named after the failure it reports.         *)
(***************************************************************************)
EXTENDS Integers, Sequences, FiniteSets, TLC

(***************************************************************************)
(* Python str operations                                                   *)
(***************************************************************************)

\* s[i:] for a 0-based i, as a tuple of characters
StrFrom(s, i) == SubSeq(s, i + 1, Len(s))

\* s.startswith(prefix)
StartsWith(s, prefix) ==
    /\ Len(prefix) <= Len(s)
    /\ SubSeq(s, 1, Len(prefix)) = prefix

\* `sub in s` for two str
StrIn(sub, s) ==
    \E i \in 0..(Len(s) - Len(sub)) : StartsWith(StrFrom(s, i), sub)

\* s.replace(old, ""), for a non-empty old: every non-overlapping occurrence,
\* scanning from the left
RECURSIVE StrRemove(_, _)
StrRemove(s, old) ==
    IF s = <<>> THEN <<>>
    ELSE IF StartsWith(s, old) THEN StrRemove(StrFrom(s, Len(old)), old)
    ELSE <<Head(s)>> \o StrRemove(Tail(s), old)

\* x in l, for a list (or an Index) l
InList(x, l) == \E i \in 1..Len(l) : l[i] = x

\* the element of a one-element set. The({e(x) : x \in {v}}) is e(v) with
\* v computed once, the way a statement x = v computes it once.
The(S) == CHOOSE x \in S : TRUE

(***************************************************************************)
(* Exact arithmetic                                                        *)
(***************************************************************************)

Abs(n) == IF n < 0 THEN -n ELSE n

RECURSIVE GCD(_, _)
GCD(a, b) == IF b = 0 THEN a ELSE GCD(b, a % b)

\* the fraction n/d (d # 0) in lowest terms with a positive denominator
Reduced(n, d, g) == IF d < 0 THEN <<(-n) \div g, (-d) \div g>>
                    ELSE <<n \div g, d \div g>>

Rat(n, d) ==
    The({ The({ Reduced(a, b, g) : g \in {GCD(Abs(a), Abs(b))} }) :
          a \in {n}, b \in {d} })

RInt(n)    == <<n, 1>>
RAdd(a, b) ==
    The({ Rat(x[1] * y[2] + y[1] * x[2], x[2] * y[2]) : x \in {a}, y \in {b} })
RSub(a, b) ==
    The({ Rat(x[1] * y[2] - y[1] * x[2], x[2] * y[2]) : x \in {a}, y \in {b} })
RMul(a, b) ==
    The({ Rat(x[1] * y[1], x[2] * y[2]) : x \in {a}, y \in {b} })
RDiv(a, b) ==
    The({ Rat(x[1] * y[2], x[2] * y[1]) : x \in {a}, y \in {b} })

\* the sum of a tuple of fractions, from the left
RECURSIVE RSumTo(_, _)
RSumTo(xs, n) ==
    IF n = 0 THEN RInt(0) ELSE RAdd(RSumTo(xs, n - 1), xs[n])

RSum(xs) == The({ RSumTo(v, Len(v)) : v \in {xs} })

RECURSIVE IntSumTo(_, _)
IntSumTo(xs, n) == IF n = 0 THEN 0 ELSE IntSumTo(xs, n - 1) + xs[n]

IntSum(xs) == The({ IntSumTo(v, Len(v)) : v \in {xs} })

(***************************************************************************)
(* pandas.DataFrame                                                        *)
(***************************************************************************)

\* pd.DataFrame(): no index, no columns
EmptyFrame == [index |-> <<>>, columns |-> <<>>, values |-> <<>>]

\* pd.RangeIndex(n): 0, 1, ..., n-1
RangeIndex(n) == [i \in 1..n |-> i - 1]

\* DataFrame.insert(loc=len(columns), column, value) with a value array, on
\* a frame that is either empty or has rows. The frame is changed in place;
\* the result is the exception raised ("none" if none) and the frame after.
\* pandas checks the length of the values first, then the column label
\* (allow_duplicates is False).
FrameInsert(df, column, value) ==
    IF df.columns = <<>> /\ df.index = <<>>
    THEN [raised |-> "none",
          df     |-> [index   |-> RangeIndex(Len(value)),
                      columns |-> <<column>>,
                      values  |-> <<value>>]]
    ELSE IF Len(value) # Len(df.index)
    THEN [raised |-> "ValueError: length of values", df |-> df]
    ELSE IF InList(column, df.columns)
    THEN [raised |-> "ValueError: column already exists", df |-> df]
    ELSE [raised |-> "none",
          df     |-> [index   |-> df.index,
                      columns |-> Append(df.columns, column),
                      values  |-> Append(df.values, value)]]

\* DataFrame.set_index(array, inplace=True)
FrameSetIndex(df, labels) ==
    IF Len(labels) # Len(df.index)
    THEN [raised |-> "ValueError: length of index", df |-> df]
    ELSE [raised |-> "none", df |-> [df EXCEPT !.index = labels]]

(***************************************************************************)
(* qpy.returns and qpy.quants                                              *)
(***************************************************************************)

\* daily percentage change of one price column: (p[t] - p[t-1]) / p[t-1]
PctChange(v) ==
    [t \in 1..(Len(v) - 1) |-> Rat(v[t + 1] - v[t], v[t])]

\* dailyReturns(table): the percentage change of every column
dailyReturns(df) == [i \in 1..Len(df.columns) |-> PctChange(df.values[i])]

\* mean of a non-empty tuple of fractions
RMean(xs) == RDiv(RSum(xs), RInt(Len(xs)))

\* historicalMeanReturn(table, freq): per column, mean daily return * freq
historicalMeanReturn(df, freq) ==
    LET r == dailyReturns(df)
    IN  [i \in 1..Len(r) |-> RMul(RMean(r[i]), RInt(freq))]

\* sample covariance (divisor T - 1) of two return series of length T >= 2
Covariance(x, y) ==
    The({ RDiv(RSum([t \in 1..Len(x) |->
                        RMul(RSub(x[t], mx), RSub(y[t], my))]),
               RInt(Len(x) - 1)) :
          mx \in {RMean(x)}, my \in {RMean(y)} })

(***************************************************************************)
(* Python objects                                                          *)
(***************************************************************************)

None      == [type |-> "NoneType"]
\* an int or a float; v is its value as a fraction
PyInt(n)   == [type |-> "int", v |-> RInt(n)]
PyFloat(q) == [type |-> "float", v |-> q]
PyStr(s)   == [type |-> "str", s |-> s]

\* weightedMean(values, weights) = sum(values * weights); the element-wise
\* product of arrays of different lengths raises
weightedMean(means, weights) ==
    IF Len(means) # Len(weights)
    THEN [raised |-> "ValueError: lengths must match", val |-> None]
    ELSE [raised |-> "none",
          val    |-> PyFloat(RSum([i \in 1..Len(means) |->
                                      RMul(means[i], weights[i])]))]

\* weightedStd(cov, weights) * sqrt(freq)
\*   = sqrt(weights^T . cov . weights) * sqrt(freq),
\* kept as the symbolic square root of weights^T . cov . weights * freq
weightedStdTimesSqrt(cov, weights, freq) ==
    IF Len(cov) # Len(weights)
    THEN [raised |-> "ValueError: shapes not aligned", val |-> None]
    ELSE LET n      == Len(weights)
             row(i) == RSum([j \in 1..n |-> RMul(cov[i][j], weights[j])])
             wSw    == RSum([i \in 1..n |-> RMul(weights[i], row(i))])
         IN  [raised |-> "none",
              val    |-> [type |-> "float", sqrtOf |-> RMul(wSw, RInt(freq))]]

\* sharpeRatio(expReturn, vol, riskFreeRate) = (expReturn - riskFreeRate)/vol,
\* kept as the symbolic quotient; a float division by a zero volatility
\* gives a signed infinity or nan
sharpeRatio(expReturn, vol, riskFreeRate) ==
    IF expReturn = None \/ vol = None
    THEN [raised |-> "TypeError: unsupported operand", val |-> None]
    ELSE IF vol.sqrtOf[1] = 0
    THEN [raised |-> "none", val |-> [type |-> "float", inf |-> TRUE]]
    ELSE [raised |-> "none",
          val    |-> [type |-> "float",
                      num  |-> RSub(expReturn.v, riskFreeRate),
                      den  |-> vol]]

(***************************************************************************)
(* class Portfolio                                                         *)
(***************************************************************************)

\* default of the parameter freq
Freq == 252

\* default of the parameter riskFreeRate, 0.005
RiskFreeRate == Rat(5, 1000)

\* the attribute _Portfolio__totalinvestment does not exist
Unset == [type |-> "unset"]

\* Portfolio.__init__: the assignment self.totalinvestment = None goes
\* through the setter, which does nothing for None, so the attribute behind
\* the property is not created
NewPortfolio ==
    [portfolio       |-> <<>>,
     stocks          |-> <<>>,
     data            |-> EmptyFrame,
     expectedReturn  |-> None,
     volatility      |-> None,
     sharpe          |-> None,
     skew            |-> None,
     kurtosis        |-> None,
     totalinvestment |-> Unset]

\* the setter with the assignment made before the tests: a value that is
\* rejected is stored all the same
totalinvestmentSetterStoresFirst(p, val) ==
    IF val = None
    THEN [raised |-> "none", pf |-> p]
    ELSE IF val.type \notin {"float", "int"}
    THEN [raised |-> "ValueError: must be a float or integer",
          pf |-> [p EXCEPT !.totalinvestment = val]]
    ELSE IF val.v[1] <= 0
    THEN [raised |-> "ValueError: must be > 0",
          pf |-> [p EXCEPT !.totalinvestment = val]]
    ELSE [raised |-> "none", pf |-> [p EXCEPT !.totalinvestment = val]]

\* the setter of the property totalinvestment
totalinvestmentSetter(p, val) ==
    IF val = None
    THEN [raised |-> "none", pf |-> p]
    ELSE IF val.type \notin {"float", "int"}
    THEN [raised |-> "ValueError: must be a float or integer", pf |-> p]
    ELSE IF val.v[1] <= 0
    THEN [raised |-> "ValueError: must be > 0", pf |-> p]
    ELSE [raised |-> "none", pf |-> [p EXCEPT !.totalinvestment = val]]

\* Portfolio._addStockData: the columns of df are inserted one by one into
\* self.data, which is changed in place, so the columns inserted before a
\* raise stay; then the index of df replaces the index of self.data
RECURSIVE InsertColumns(_, _, _)
InsertColumns(data, df, i) ==
    IF i > Len(df.columns)
    THEN [raised |-> "none", df |-> data]
    ELSE LET r == FrameInsert(data, df.columns[i], df.values[i])
         IN  IF r.raised # "none" THEN r
             ELSE InsertColumns(r.df, df, i + 1)

\* _addStockData with the values of each column cut, or padded with the last
\* price, to the number of rows of self.data before they are inserted
_addStockDataFitted(data, df) ==
    LET fitted(v) == [k \in 1..Len(data.index) |->
                         v[IF k <= Len(v) THEN k ELSE Len(v)]]
        fit == IF data.columns = <<>> /\ data.index = <<>> THEN df
               ELSE [df EXCEPT !.values =
                        [i \in 1..Len(df.values) |-> fitted(df.values[i])]]
        r   == InsertColumns(data, fit, 1)
    IN  IF r.raised # "none" THEN r
        ELSE FrameSetIndex(r.df, df.index)

_addStockData(data, df) ==
    LET r == InsertColumns(data, df, 1)
    IN  IF r.raised # "none" THEN r
        ELSE FrameSetIndex(r.df, df.index)

\* compWeights on a frame self.portfolio that has the column 'FMV' from its
\* construction: without rows the result is an empty Series
compWeightsOfEmptyColumn(p) ==
    IF p.totalinvestment = Unset
    THEN [raised |-> "AttributeError: __totalinvestment", val |-> None]
    ELSE [raised |-> "none",
          val    |-> [type |-> "Series",
                      v    |-> [i \in 1..Len(p.portfolio) |->
                                  RDiv(RInt(p.portfolio[i].FMV),
                                       p.totalinvestment.v)]]]

\* compWeights with the weights in the reverse of the row order
compWeightsReversed(p) ==
    IF p.portfolio = <<>>
    THEN [raised |-> "KeyError: 'FMV'", val |-> None]
    ELSE IF p.totalinvestment = Unset
    THEN [raised |-> "AttributeError: __totalinvestment", val |-> None]
    ELSE [raised |-> "none",
          val    |-> [type |-> "Series",
                      v    |-> [i \in 1..Len(p.portfolio) |->
                                  RDiv(RInt(p.portfolio[Len(p.portfolio) + 1 - i].FMV),
                                       p.totalinvestment.v)]]]

\* Portfolio.compWeights: self.portfolio['FMV'] / self.totalinvestment.
\* The left operand is evaluated first: a DataFrame to which no row was
\* appended has no column 'FMV'; then the getter reads the attribute.
compWeights(p) ==
    IF p.portfolio = <<>>
    THEN [raised |-> "KeyError: 'FMV'", val |-> None]
    ELSE IF p.totalinvestment = Unset
    THEN [raised |-> "AttributeError: __totalinvestment", val |-> None]
    ELSE [raised |-> "none",
          val    |-> [type |-> "Series",
                      v    |-> [i \in 1..Len(p.portfolio) |->
                                  RDiv(RInt(p.portfolio[i].FMV),
                                       p.totalinvestment.v)]]]

\* Portfolio.compCov: the covariance matrix of the daily returns
compCov(p) ==
    The({ [i \in 1..Len(r) |-> [j \in 1..Len(r) |-> Covariance(r[i], r[j])]] :
          r \in {dailyReturns(p.data)} })

\* what a method of Portfolio hands back when a call it makes raises
Raises(what, p) == [raised |-> what, val |-> None, pf |-> p]

\* Portfolio.compExpectedReturn: returns the value and caches it
compExpectedReturn(p, freq) ==
    The({ IF w.raised # "none" THEN Raises(w.raised, p)
          ELSE The({ IF m.raised # "none" THEN Raises(m.raised, p)
                     ELSE [raised |-> "none", val |-> m.val,
                           pf |-> [p EXCEPT !.expectedReturn = m.val]] :
                     m \in {weightedMean(historicalMeanReturn(p.data, freq),
                                         w.val.v)} }) :
          w \in {compWeights(p)} })

\* Portfolio.compVolatility: returns the value and caches it
compVolatility(p, freq) ==
    The({ IF w.raised # "none" THEN Raises(w.raised, p)
          ELSE The({ IF s.raised # "none" THEN Raises(s.raised, p)
                     ELSE [raised |-> "none", val |-> s.val,
                           pf |-> [p EXCEPT !.volatility = s.val]] :
                     s \in {weightedStdTimesSqrt(compCov(p), w.val.v, freq)} }) :
          w \in {compWeights(p)} })

\* compSharpe calling compExpectedReturn and compVolatility (with the
\* default freq) first, and computing from what they return
compSharpeRecomputing(p, riskFreeRate) ==
    The({ IF e.raised # "none" THEN Raises(e.raised, p)
          ELSE The({ IF v.raised # "none" THEN Raises(v.raised, e.pf)
                     ELSE The({ IF s.raised # "none"
                                THEN Raises(s.raised, v.pf)
                                ELSE [raised |-> "none", val |-> s.val,
                                      pf |-> [v.pf EXCEPT !.sharpe = s.val]] :
                                s \in {sharpeRatio(e.val, v.val,
                                                   riskFreeRate)} }) :
                     v \in {compVolatility(e.pf, Freq)} }) :
          e \in {compExpectedReturn(p, Freq)} })

\* Portfolio.compSharpe: computes from the cached fields, caches the result
compSharpe(p, riskFreeRate) ==
    The({ IF s.raised # "none" THEN Raises(s.raised, p)
          ELSE [raised |-> "none", val |-> s.val,
                pf |-> [p EXCEPT !.sharpe = s.val]] :
          s \in {sharpeRatio(p.expectedReturn, p.volatility, riskFreeRate)} })

\* Portfolio.__compSkew and __compKurtosis: one value per column of
\* self.data, kept as the statistic's name applied to the column
compSkew(p) ==
    [type |-> "Series",
     v    |-> [i \in 1..Len(p.data.columns) |->
                  <<"skew", p.data.columns[i], p.data.values[i]>>]]

compKurtosis(p) ==
    [type |-> "Series",
     v    |-> [i \in 1..Len(p.data.columns) |->
                  <<"kurt", p.data.columns[i], p.data.values[i]>>]]

\* dict.update({key: value}); a dict is a tuple of <<key, value>> pairs
DictUpdate(d, key, value) ==
    IF \E i \in 1..Len(d) : d[i][1] = key
    THEN [i \in 1..Len(d) |-> IF d[i][1] = key THEN <<key, value>> ELSE d[i]]
    ELSE Append(d, <<key, value>>)

DictKeys(d) == {d[i][1] : i \in 1..Len(d)}

\* sum of the column FMV of self.portfolio
FMVSum(p) == IntSum([i \in 1..Len(p.portfolio) |-> p.portfolio[i].FMV])

\* the statements of addStock after the call of _addStockData, in order:
\* the assignments of totalinvestment, expectedReturn, volatility, sharpe,
\* skew and kurtosis
AddStockStatement(k, p) ==
    CASE k = 1 -> totalinvestmentSetter(p, PyInt(FMVSum(p)))
      [] k = 2 -> compExpectedReturn(p, Freq)
      [] k = 3 -> compVolatility(p, Freq)
      [] k = 4 -> compSharpe(p, RiskFreeRate)
      [] k = 5 -> [raised |-> "none", pf |-> [p EXCEPT !.skew = compSkew(p)]]
      [] k = 6 -> [raised |-> "none",
                   pf |-> [p EXCEPT !.kurtosis = compKurtosis(p)]]

\* the statements k, k+1, ... run on p: a statement that raises ends the
\* call with the changes made so far
RECURSIVE AddStockFrom(_, _)
AddStockFrom(k, p) ==
    IF k > 6 THEN [raised |-> "none", pf |-> p]
    ELSE The({ IF r.raised # "none" THEN [raised |-> r.raised, pf |-> r.pf]
               ELSE AddStockFrom(k + 1, r.pf) :
               r \in {AddStockStatement(k, p)} })

\* Portfolio.addStock. Each statement changes self as soon as it runs; a
\* statement that raises ends the call with the changes made so far.
addStock(p, stock) ==
    The({ The({ IF d.raised # "none"
                THEN [raised |-> d.raised, pf |-> [p1 EXCEPT !.data = d.df]]
                ELSE AddStockFrom(1, [p1 EXCEPT !.data = d.df]) :
                d \in {_addStockData(p1.data, stock.data)} }) :
          p1 \in {[p EXCEPT !.stocks = DictUpdate(@, stock.name, stock),
                            !.portfolio = Append(@, stock.investmentinfo)]} })

(***************************************************************************)
(* The holdings offered to addStock                                        *)
(***************************************************************************)

\* class Stock: name is investmentinfo.Name; data is the price history
Stock(name, fmv, data) ==
    [name |-> name, investmentinfo |-> [Name |-> name, FMV |-> fmv],
     data |-> data]

\* a price history of one column
Prices(index, label, values) ==
    [index |-> index, columns |-> <<label>>, values |-> <<values>>]

\* three trading days, three other trading days, four trading days
Dates      == <<1, 2, 3>>
OtherDates == <<11, 12, 13>>
LongDates  == <<1, 2, 3, 4>>

StockA == Stock(<<"A">>, 500, Prices(Dates, <<"A">>, <<1, 2, 4>>))
StockB == Stock(<<"B">>, 500, Prices(Dates, <<"B">>, <<2, 2, 1>>))
StockC == Stock(<<"C">>, 1500, Prices(Dates, <<"C">>, <<2, 1, 2>>))
\* the name of StockA again, with the same column label and with another
StockASame  == Stock(<<"A">>, 1500, Prices(Dates, <<"A">>, <<2, 4, 4>>))
StockAOther == Stock(<<"A">>, 500, Prices(Dates, <<"A", "2">>, <<4, 2, 1>>))
\* a history of another length, and one of the same length on other dates
StockD == Stock(<<"D">>, 500, Prices(LongDates, <<"D">>, <<1, 1, 2, 2>>))
StockE == Stock(<<"E">>, 1500, Prices(OtherDates, <<"E">>, <<1, 2, 2>>))
\* a stock of FMV 0
StockF == Stock(<<"F">>, 0, Prices(Dates, <<"F">>, <<1, 1, 2>>))

Stocks ==
    {StockA, StockB, StockC, StockASame, StockAOther, StockD, StockE, StockF}

\* the values assigned directly to totalinvestment
Assigned ==
    {None, PyInt(0), PyInt(-5), PyInt(1000), PyFloat(Rat(5, 2)),
     PyStr(<<"1", "0">>)}

\* the number of addStock calls on one Portfolio
MaxStocks == 3

(***************************************************************************)
(* The builder functions                                                   *)
(***************************************************************************)

\* the str constants 'WIKI/', ' - ' and "Adj. Close"
Wiki     == <<"W", "I", "K", "I", "/">>
Dash     == <<" ", "-", " ">>
AdjClose == <<"A", "d", "j", ".", " ", "C", "l", "o", "s", "e">>

\* _correctQuandlRequestStockName on a list of names
_correctQuandlRequestStockName(names) ==
    [i \in 1..Len(names) |->
        IF ~StartsWith(names[i], Wiki) THEN Wiki \o names[i] ELSE names[i]]

\* _getQuandlDataColumnLabel
_getQuandlDataColumnLabel(stock_name, data_label) ==
    stock_name \o Dash \o data_label

\* data.loc[:, labels]: the columns with these labels, in the order of labels
FrameLoc(df, labels) ==
    LET pos(l) == CHOOSE k \in 1..Len(df.columns) : df.columns[k] = l
    IN  [index   |-> df.index,
         columns |-> labels,
         values  |-> [k \in 1..Len(labels) |-> df.values[pos(labels[k])]]]

\* the label picked with the tests 2. and 3. in the other order
ResolveLabelShortFirst(columns, name, reqname, col) ==
    IF InList(name, columns)
    THEN [raised |-> "none", colname |-> name]
    ELSE IF InList(_getQuandlDataColumnLabel(name, col), columns)
    THEN [raised |-> "none", colname |-> _getQuandlDataColumnLabel(name, col)]
    ELSE IF InList(_getQuandlDataColumnLabel(reqname, col), columns)
    THEN [raised |-> "none",
          colname |-> _getQuandlDataColumnLabel(reqname, col)]
    ELSE [raised |-> "ValueError: could not find column labels",
          colname |-> <<>>]

\* the label one pass of the loop over cols picks for names[i] and col:
\* 1. <stock_name>, 2. "WIKI/<stock_name> - <col>", 3. "<stock_name> - <col>",
\* else the ValueError
ResolveLabel(columns, name, reqname, col) ==
    IF InList(name, columns)
    THEN [raised |-> "none", colname |-> name]
    ELSE IF InList(_getQuandlDataColumnLabel(reqname, col), columns)
    THEN [raised |-> "none",
          colname |-> _getQuandlDataColumnLabel(reqname, col)]
    ELSE IF InList(_getQuandlDataColumnLabel(name, col), columns)
    THEN [raised |-> "none", colname |-> _getQuandlDataColumnLabel(name, col)]
    ELSE [raised |-> "ValueError: could not find column labels",
          colname |-> <<>>]

\* the loops of _getStocksDataColumns over names (i) and cols (c), from the
\* pass (i, c) on; acc is reqcolnames so far
RECURSIVE ResolveAll(_, _, _, _, _, _)
ResolveAll(columns, names, reqnames, cols, k, acc) ==
    IF k > Len(names) * Len(cols)
    THEN [raised |-> "none", reqcolnames |-> acc]
    ELSE LET i == ((k - 1) \div Len(cols)) + 1
             c == ((k - 1) % Len(cols)) + 1
             r == ResolveLabel(columns, names[i], reqnames[i], cols[c])
         IN  IF r.raised # "none"
             THEN [raised |-> r.raised, reqcolnames |-> acc]
             ELSE ResolveAll(columns, names, reqnames, cols, k + 1,
                             Append(acc, r.colname))

\* _getStocksDataColumns: the resolved columns, 'WIKI/' removed from their
\* labels, and with one data column per stock "<name> - <col>" renamed to
\* <name>
_getStocksDataColumns(data, names, cols) ==
    LET short(l) ==
            IF Len(cols) = 1
               /\ \E i \in 1..Len(names) :
                      l = _getQuandlDataColumnLabel(names[i], cols[1])
            THEN names[CHOOSE i \in 1..Len(names) :
                           l = _getQuandlDataColumnLabel(names[i], cols[1])]
            ELSE l
        renamed(picked) ==
            [picked EXCEPT
                !.columns = [k \in 1..Len(picked.columns) |->
                                short(StrRemove(picked.columns[k], Wiki))]]
    IN  The({ IF r.raised # "none"
              THEN [raised |-> r.raised, reqcolnames |-> r.reqcolnames,
                    data |-> data]
              ELSE [raised |-> "none", reqcolnames |-> r.reqcolnames,
                    data |-> renamed(FrameLoc(data, r.reqcolnames))] :
              r \in {ResolveAll(data.columns, names,
                                _correctQuandlRequestStockName(names),
                                cols, 1, <<>>)} })

\* _stocknamesInDataColumns with all in place of any over the names
_stocknamesInDataColumnsAll(names, df) ==
    \A i \in 1..Len(names) : \E k \in 1..Len(df.columns) :
        StrIn(names[i], df.columns[k])

\* _stocknamesInDataColumns
_stocknamesInDataColumns(names, df) ==
    \E i \in 1..Len(names) : \E k \in 1..Len(df.columns) :
        StrIn(names[i], df.columns[k])

\* data.filter(regex=name) for a name without regex metacharacters: the
\* columns whose label contains name
RECURSIVE Matching(_, _, _)
Matching(columns, name, k) ==
    IF k > Len(columns) THEN <<>>
    ELSE (IF StrIn(name, columns[k]) THEN <<k>> ELSE <<>>)
             \o Matching(columns, name, k + 1)

FrameFilter(df, name) ==
    LET ks == Matching(df.columns, name, 1)
    IN  [index   |-> df.index,
         columns |-> [n \in 1..Len(ks) |-> df.columns[ks[n]]],
         values  |-> [n \in 1..Len(ks) |-> df.values[ks[n]]]]

\* the loop of _buildPortfolioFromDf over the rows of pf_information from
\* row i on: a Stock per row, added to pf; constructed counts the Stocks
RECURSIVE AddRows(_, _, _, _, _)
AddRows(p, pf_information, data, i, constructed) ==
    IF i > Len(pf_information)
    THEN [raised |-> "none", pf |-> p, constructed |-> constructed]
    ELSE LET name     == pf_information[i].Name
             stock    == [name |-> name, investmentinfo |-> pf_information[i],
                          data |-> FrameFilter(data, name)]
             after(r) == IF r.raised # "none"
                         THEN [raised |-> r.raised, pf |-> r.pf,
                               constructed |-> constructed + 1]
                         ELSE AddRows(r.pf, pf_information, data, i + 1,
                                      constructed + 1)
         IN  The({ The({ after(r) : r \in {addStock(p, st)} }) :
                   st \in {stock} })

\* the names in the column Name of pf_information
NamesOf(pf_information) ==
    [i \in 1..Len(pf_information) |-> pf_information[i].Name]

\* _buildPortfolioFromDf
_buildPortfolioFromDf(pf_information, data, datacolumns) ==
    IF ~_stocknamesInDataColumns(NamesOf(pf_information), data)
    THEN [raised |-> "ValueError: none of the stock names found",
          pf |-> NewPortfolio, reqcolnames |-> <<>>, constructed |-> 0]
    ELSE LET after(g) ==
                 IF g.raised # "none"
                 THEN [raised |-> g.raised, pf |-> NewPortfolio,
                       reqcolnames |-> g.reqcolnames, constructed |-> 0]
                 ELSE LET built(r) ==
                              [raised |-> r.raised, pf |-> r.pf,
                               reqcolnames |-> g.reqcolnames,
                               constructed |-> r.constructed]
                      IN  The({ built(r) : r \in
                                {AddRows(NewPortfolio, pf_information,
                                         g.data, 1, 0)} })
         IN  The({ after(g) : g \in
                   {_getStocksDataColumns(data, NamesOf(pf_information),
                                          datacolumns)} })

\* quandl.get(reqnames, ...) when it answers: per requested name the
\* column "<reqname> - Adj. Close" on the trading days Dates
QuandlFrame(reqnames) ==
    [index   |-> Dates,
     columns |-> [i \in 1..Len(reqnames) |->
                     _getQuandlDataColumnLabel(reqnames[i], AdjClose)],
     values  |-> [i \in 1..Len(reqnames) |->
                     <<Len(reqnames[i]), 1 + 2 * i, 4>>]]

\* _quandlRequest: the request fails (answered = FALSE) or returns a frame
_quandlRequest(names, answered) ==
    IF answered
    THEN [raised |-> "none",
          data   |-> QuandlFrame(_correctQuandlRequestStockName(names))]
    ELSE [raised |-> "quandl: request failed", data |-> EmptyFrame]

\* what a build function hands back when it raises before any Stock
Failed(what) ==
    [raised |-> what, pf |-> NewPortfolio, reqcolnames |-> <<>>,
     constructed |-> 0]

\* _buildPortfolioFromQuandl
_buildPortfolioFromQuandl(pf_information, names, answered) ==
    The({ IF q.raised # "none" THEN Failed(q.raised)
          ELSE _buildPortfolioFromDf(pf_information, q.data, <<AdjClose>>) :
          q \in {_quandlRequest(names, answered)} })

\* _listComplement(A, B), _anyListEleInOther(l1, l2)
_listComplement(A, B) == B \ A
_anyListEleInOther(l1, l2) == \E ele \in l1 : ele \in l2

allInputArgs == {"names", "start_date", "end_date", "data"}

\* buildPortfolio(pf_information, **kwargs). kwargs.keys are the keywords
\* given; kwargs.names, kwargs.data and kwargs.datacolumns are the values
\* of those keywords. A keyword that the called function has no parameter
\* for raises TypeError at the call.
buildPortfolio(pf_information, kwargs, answered) ==
    LET allowed1 == {"names", "start_date", "end_date"}
        allowed2 == {"data"}
        first ==
            IF "names" \in kwargs.keys
            THEN IF _anyListEleInOther(_listComplement(allowed1, allInputArgs),
                                       kwargs.keys)
                 THEN Failed("ValueError: input arguments not allowed in combination")
                 ELSE IF ~(kwargs.keys \subseteq allowed1)
                 THEN Failed("TypeError: unexpected keyword argument")
                 ELSE _buildPortfolioFromQuandl(pf_information, kwargs.names,
                                                answered)
            ELSE [raised |-> "none", pf |-> NewPortfolio,
                  reqcolnames |-> <<>>, constructed |-> 0]
        second(pf1) ==
            IF "data" \in kwargs.keys
            THEN IF _anyListEleInOther(_listComplement(allowed2, allInputArgs),
                                       kwargs.keys)
                 THEN Failed("ValueError: input arguments not allowed in combination")
                 ELSE IF ~(kwargs.keys \subseteq {"data", "datacolumns"})
                 THEN Failed("TypeError: unexpected keyword argument")
                 ELSE _buildPortfolioFromDf(
                          pf_information, kwargs.data,
                          IF "datacolumns" \in kwargs.keys
                          THEN kwargs.datacolumns ELSE <<AdjClose>>)
            ELSE pf1
    IN  The({ IF pf1.raised # "none" THEN pf1 ELSE second(pf1) :
              pf1 \in {first} })

(***************************************************************************)
(* The calls offered to buildPortfolio                                     *)
(***************************************************************************)

Volume == <<"V", "o", "l", "u", "m", "e">>

\* the column labels a price table is made of
Labels ==
    << <<"A">>,
       _getQuandlDataColumnLabel(Wiki \o <<"A">>, AdjClose),
       _getQuandlDataColumnLabel(<<"A">>, AdjClose),
       _getQuandlDataColumnLabel(<<"B">>, AdjClose),
       _getQuandlDataColumnLabel(<<"A", "B">>, AdjClose),
       _getQuandlDataColumnLabel(<<"A">>, Volume) >>

\* the price table with the columns Labels[k], k in ks, in that order
RECURSIVE Ascending(_, _)
Ascending(ks, k) ==
    IF k > Len(Labels) THEN <<>>
    ELSE (IF k \in ks THEN <<k>> ELSE <<>>) \o Ascending(ks, k + 1)

Table(ks) ==
    LET order == Ascending(ks, 1)
    IN  [index   |-> Dates,
         columns |-> [n \in 1..Len(order) |-> Labels[order[n]]],
         values  |-> [n \in 1..Len(order) |->
                         <<order[n], 1 + (order[n] % 3), 2>>]]

Tables == {Table(ks) : ks \in SUBSET (1..Len(Labels))}

Row(name, fmv) == [Name |-> name, FMV |-> fmv]

\* the tables pf_information
Infos ==
    { << Row(<<"A">>, 500), Row(<<"B">>, 500) >>,
      << Row(<<"A">>, 500), Row(<<"A", "B">>, 1500) >>,
      << Row(<<"A">>, 500) >>,
      << Row(<<"Z">>, 500) >>,
      << Row(<<"A">>, 500), Row(<<"Z">>, 1500) >> }

\* the keywords of a call: those of allInputArgs, the parameter datacolumns
\* of _buildPortfolioFromDf, and one that no function knows
Keywords == allInputArgs \cup {"datacolumns", "verbose"}

\* the values of the keywords names and datacolumns
NameLists == { << <<"A">> >>, << <<"A">>, <<"B">> >> }
ColLists  == { <<AdjClose>>, <<AdjClose, Volume>> }

\* a call with the keywords keys: a keyword that is given has a value, the
\* others have none (an empty list, the empty frame)
Request(info, keys, names, data, cols) ==
    [pf_information |-> info,
     kwargs |-> [keys        |-> keys,
                 names       |-> IF "names" \in keys THEN names ELSE <<>>,
                 data        |-> IF "data" \in keys THEN data ELSE EmptyFrame,
                 datacolumns |-> IF "datacolumns" \in keys THEN cols
                                 ELSE <<>>]]

(***************************************************************************)
(* The state machine of one Portfolio                                      *)
(***************************************************************************)

VARIABLES
    pf,        \* the Portfolio object
    raised,    \* the exception the last call raised, "none" if it returned
    returned,  \* the value the last call returned
    calls,     \* the addStock calls so far: the stock and what was raised
    last,      \* the last call: its name, its argument, pf before it
    request,   \* the buildPortfolio call to make, None if there is none
    sharpeFrom \* the arguments of the sharpeRatio call that gave pf.sharpe

vars == <<pf, raised, returned, calls, last, request, sharpeFrom>>

\* the arguments of the sharpeRatio call made by compSharpe on p
SharpeArguments(p, riskFreeRate) ==
    [expReturn |-> p.expectedReturn, vol |-> p.volatility,
     riskFreeRate |-> riskFreeRate]

Init ==
    /\ pf = NewPortfolio
    /\ raised = "none"
    /\ returned = None
    /\ calls = <<>>
    /\ last = [op |-> "init", arg |-> None, before |-> NewPortfolio]
    /\ request = None
    /\ sharpeFrom = None

\* pf.addStock(stock)
AddStock(stock) ==
    /\ Len(calls) < MaxStocks
    /\ \E r \in {addStock(pf, stock)} :
           /\ pf' = r.pf
           /\ raised' = r.raised
           /\ returned' = None
           /\ calls' = Append(calls, [stock |-> stock, raised |-> r.raised])
           \* a call that returned has run self.sharpe = self.compSharpe()
           /\ sharpeFrom' = IF r.raised = "none"
                             THEN SharpeArguments(r.pf, RiskFreeRate)
                             ELSE sharpeFrom
    /\ last' = [op |-> "addStock", arg |-> stock, before |-> pf]
    /\ UNCHANGED request

\* pf.totalinvestment = val
SetTotalinvestment(val) ==
    /\ \E r \in {totalinvestmentSetter(pf, val)} :
           /\ pf' = r.pf
           /\ raised' = r.raised
    /\ returned' = None
    /\ last' = [op |-> "totalinvestment", arg |-> val, before |-> pf]
    /\ UNCHANGED <<calls, request, sharpeFrom>>

\* pf.compWeights()
CompWeights ==
    /\ \E r \in {compWeights(pf)} :
           /\ raised' = r.raised
           /\ returned' = r.val
    /\ last' = [op |-> "compWeights", arg |-> None, before |-> pf]
    /\ UNCHANGED <<pf, calls, request, sharpeFrom>>

Next ==
    \/ \E stock \in Stocks : AddStock(stock)
    \/ \E val \in Assigned : SetTotalinvestment(val)
    \/ CompWeights

Spec == Init /\ [][Next]_vars

(***************************************************************************)
(* The state machine of one buildPortfolio call                            *)
(***************************************************************************)

InitBuild ==
    /\ pf = NewPortfolio
    /\ raised = "none"
    /\ returned = None
    /\ calls = <<>>
    /\ last = [op |-> "init", arg |-> None, before |-> NewPortfolio,
               reqcolnames |-> <<>>, constructed |-> 0]
    /\ \E info \in Infos, keys \in SUBSET Keywords, names \in NameLists,
          data \in Tables, cols \in ColLists :
           request = Request(info, keys, names, data, cols)
    /\ sharpeFrom = None

\* pf = buildPortfolio(pf_information, **kwargs); quandl answers or not
BuildPortfolio(answered) ==
    /\ last.op = "init"
    /\ \E r \in {buildPortfolio(request.pf_information, request.kwargs,
                                 answered)} :
           /\ raised' = r.raised
           /\ pf' = IF r.raised = "none" THEN r.pf ELSE pf
           /\ returned' = IF r.raised = "none"
                          THEN [type |-> "Portfolio"] ELSE None
           /\ last' = [op |-> "buildPortfolio", arg |-> None, before |-> pf,
                       reqcolnames |-> r.reqcolnames,
                       constructed |-> r.constructed]
           \* the addStock calls of the build ran compSharpe
           /\ sharpeFrom' = IF r.raised = "none" /\ r.pf.sharpe # None
                             THEN SharpeArguments(r.pf, RiskFreeRate)
                             ELSE sharpeFrom
    /\ UNCHANGED <<calls, request>>

NextBuild == \E answered \in BOOLEAN : BuildPortfolio(answered)

SpecBuild == InitBuild /\ [][NextBuild]_vars

(***************************************************************************)
(* The state machine of one Portfolio and its cached statistics            *)
(***************************************************************************)

\* the values of freq and riskFreeRate of the calls: the defaults and others
Freqs == {Freq, 1}
Rates == {RiskFreeRate, RInt(0)}

\* the stocks added: two that can be added together and one of four dates
StatsStocks == {StockA, StockC, StockD}

\* pf.compExpectedReturn(freq=freq)
CompExpectedReturn(freq) ==
    /\ \E r \in {compExpectedReturn(pf, freq)} :
           /\ pf' = r.pf
           /\ raised' = r.raised
           /\ returned' = r.val
    /\ last' = [op |-> "compExpectedReturn", arg |-> freq, before |-> pf]
    /\ UNCHANGED <<calls, request, sharpeFrom>>

\* pf.compVolatility(freq=freq)
CompVolatility(freq) ==
    /\ \E r \in {compVolatility(pf, freq)} :
           /\ pf' = r.pf
           /\ raised' = r.raised
           /\ returned' = r.val
    /\ last' = [op |-> "compVolatility", arg |-> freq, before |-> pf]
    /\ UNCHANGED <<calls, request, sharpeFrom>>

\* pf.compSharpe(riskFreeRate=riskFreeRate)
CompSharpe(riskFreeRate) ==
    /\ \E r \in {compSharpe(pf, riskFreeRate)} :
           /\ pf' = r.pf
           /\ raised' = r.raised
           /\ returned' = r.val
           /\ sharpeFrom' = IF r.raised = "none"
                             THEN SharpeArguments(pf, riskFreeRate)
                             ELSE sharpeFrom
    /\ last' = [op |-> "compSharpe", arg |-> riskFreeRate, before |-> pf]
    /\ UNCHANGED <<calls, request>>

NextStats ==
    \/ \E stock \in StatsStocks : AddStock(stock)
    \/ \E freq \in Freqs : CompExpectedReturn(freq)
    \/ \E freq \in Freqs : CompVolatility(freq)
    \/ \E riskFreeRate \in Rates : CompSharpe(riskFreeRate)

SpecStats == Init /\ [][NextStats]_vars

(***************************************************************************)
(* Replaying addStock calls on a new Portfolio                             *)
(***************************************************************************)

\* the Portfolio after ss[1], ..., ss[n] were passed to addStock in turn,
\* whatever each call raised
RECURSIVE AddAll(_, _)
AddAll(p, ss) ==
    IF ss = <<>> THEN p ELSE AddAll(addStock(p, Head(ss)).pf, Tail(ss))

\* TRUE iff none of these addStock calls raises
RECURSIVE NoneRaises(_, _)
NoneRaises(p, ss) ==
    \/ ss = <<>>
    \/ \E r \in {addStock(p, Head(ss))} :
           r.raised = "none" /\ NoneRaises(r.pf, Tail(ss))

\* the stocks passed to addStock so far, in call order
Called == [i \in 1..Len(calls) |-> calls[i].stock]

(***************************************************************************)
(* Claims                                                                  *)
(***************************************************************************)

\* C1: an addStock call with a stock whose name is already a key of
\* self.stocks raises, and the Portfolio is as it was before the call.
C1_DuplicateNameRejected ==
    (last.op = "addStock" /\ last.arg.name \in DictKeys(last.before.stocks))
        => (raised # "none" /\ pf = last.before)

\* the fields addStock maintains are those of a Portfolio built from its
\* rows: total investment, and the statistics computed from the state
AllUpdated(p) ==
    /\ p.totalinvestment = PyInt(FMVSum(p))
    /\ p.expectedReturn = compExpectedReturn(p, Freq).val
    /\ p.volatility = compVolatility(p, Freq).val
    /\ p.sharpe = compSharpe(p, RiskFreeRate).val
    /\ p.skew = compSkew(p)
    /\ p.kurtosis = compKurtosis(p)

\* C2: addStock is atomic: after a call that returned, the row, the price
\* columns, the total investment and the statistics are all updated; after
\* a call that raised, the Portfolio is as it was before the call.
C2_AddStockAtomic ==
    last.op = "addStock" =>
        IF raised = "none"
        THEN /\ pf.portfolio = Append(last.before.portfolio,
                                      last.arg.investmentinfo)
             /\ \A i \in 1..Len(last.arg.data.columns) :
                    InList(last.arg.data.columns[i], pf.data.columns)
             /\ AllUpdated(pf)
        ELSE pf = last.before

\* C3: after every addStock call, totalinvestment is the sum of the column
\* FMV of self.portfolio.
C3_TotalIsSumOfFMV ==
    last.op = "addStock" => pf.totalinvestment = PyInt(FMVSum(pf))

\* C4: on the Portfolio reached by one or more addStock calls, compWeights
\* returns one weight per row, in row order, each the row's FMV divided by
\* totalinvestment, and the weights sum to 1.
C4_WeightsSumToOne ==
    Len(calls) >= 1 =>
        LET p == AddAll(NewPortfolio, Called)
            w == compWeights(p)
        IN  /\ w.raised = "none"
            /\ Len(w.val.v) = Len(p.portfolio)
            /\ \A i \in 1..Len(p.portfolio) :
                   RMul(w.val.v[i], p.totalinvestment.v)
                       = RInt(p.portfolio[i].FMV)
            /\ RSum(w.val.v) = RInt(1)

\* an int or a float
IsNumber(val) == val.type \in {"float", "int"}

\* C6 as stated: a direct assignment of a value that is non-positive or
\* not a number raises and leaves the stored totalinvestment unchanged; the
\* assignment of a positive number stores that number.
C6_AssignmentRejectsAllButPositive ==
    last.op = "totalinvestment" =>
        IF IsNumber(last.arg) /\ last.arg.v[1] > 0
        THEN raised = "none" /\ pf.totalinvestment = last.arg
        ELSE raised # "none" /\ pf = last.before

\* C6, amended: an int or float <= 0, and a value other than None that is
\* neither an int nor a float, raise and leave the Portfolio unchanged; None
\* raises nothing and leaves the Portfolio unchanged; an int or float > 0
\* is stored and nothing else of the Portfolio changes.
C6_AssignmentRejectsOrIgnores ==
    last.op = "totalinvestment" =>
        IF last.arg = None
        THEN raised = "none" /\ pf = last.before
        ELSE IF IsNumber(last.arg) /\ last.arg.v[1] > 0
        THEN /\ raised = "none"
             /\ pf = [last.before EXCEPT !.totalinvestment = last.arg]
        ELSE raised # "none" /\ pf = last.before

\* a rejected assignment of 0 on a Portfolio whose totalinvestment is set
C6_Witness ==
    /\ last.op = "totalinvestment"
    /\ last.arg = PyInt(0)
    /\ raised = "ValueError: must be > 0"
    /\ last.before.totalinvestment # Unset
    /\ pf.totalinvestment = last.before.totalinvestment

\* C9: compWeights on a Portfolio to which no stock was added, or whose
\* totalinvestment does not exist, raises and returns no value.
C9_WeightsOfNewPortfolioRaise ==
    (last.op = "compWeights"
        /\ (pf.portfolio = <<>> \/ pf.totalinvestment = Unset))
        => (raised # "none" /\ returned = None)

\* compWeights was called on the Portfolio as constructed
C9_Witness ==
    /\ last.op = "compWeights"
    /\ calls = <<>>
    /\ pf = NewPortfolio
    /\ raised = "KeyError: 'FMV'"

\* the stocks ss in the order perm[1], perm[2], ...
Reordered(ss, perm) == [i \in 1..Len(ss) |-> ss[perm[i]]]

\* the stocks called so far have a positive FMV, distinct names, the same
\* dates, and were all added without anything raised
SameDatesDistinctNames ==
    /\ \A i \in 1..Len(calls) : calls[i].raised = "none"
    /\ \A i \in 1..Len(calls) : Called[i].investmentinfo.FMV > 0
    /\ \A i, j \in 1..Len(calls) :
           /\ (i # j => Called[i].name # Called[j].name)
           /\ Called[i].data.index = Called[j].data.index

\* C10: stocks with a positive FMV, distinct names and the same dates, added
\* to a new Portfolio in any other order, are all added there too and give
\* the same expectedReturn, volatility and sharpe.
C10_OrderIndependent ==
    SameDatesDistinctNames =>
        LET p == AddAll(NewPortfolio, Called) IN
        \A perm \in Permutations(1..Len(calls)) :
            LET q == AddAll(NewPortfolio, Reordered(Called, perm))
            IN  /\ NoneRaises(NewPortfolio, Reordered(Called, perm))
                /\ q.expectedReturn = p.expectedReturn
                /\ q.volatility = p.volatility
                /\ q.sharpe = p.sharpe

\* three stocks of different FMV and different returns were added
C10_Witness ==
    /\ SameDatesDistinctNames
    /\ {Called[i] : i \in 1..Len(calls)} = {StockA, StockB, StockC}
    /\ pf.expectedReturn # None
    /\ pf.sharpe # None

(***************************************************************************)
(* Claims about buildPortfolio                                             *)
(***************************************************************************)

Keys == request.kwargs.keys

\* the keywords are one of the two allowed sets: names with or without
\* start_date and end_date, or data alone
OneOptionSet ==
    \/ "names" \in Keys /\ Keys \subseteq {"names", "start_date", "end_date"}
    \/ Keys = {"data"}

\* C5: a buildPortfolio call whose keywords are not exactly one of the two
\* option sets (both, neither, or an unrecognised keyword mixed in) raises
\* and returns no Portfolio.
C5_ExactlyOneOptionSet ==
    (last.op = "buildPortfolio" /\ ~OneOptionSet)
        => (raised # "none" /\ returned = None)

\* the call goes to _buildPortfolioFromDf with the table kwargs.data
FromTable == "data" \in Keys /\ Keys \subseteq {"data", "datacolumns"}

TableColumns == request.kwargs.data.columns
InfoNames    == NamesOf(request.pf_information)
DataColumns  == IF "datacolumns" \in Keys THEN request.kwargs.datacolumns
                ELSE <<AdjClose>>

\* name occurs in a column label of the table
Occurs(name) ==
    \E k \in 1..Len(TableColumns) : StrIn(name, TableColumns[k])

\* C7: the build from a table raises the names-not-found ValueError, with
\* no Stock constructed and no Portfolio returned, exactly when no name of
\* pf_information occurs in a column label; and when some name of
\* pf_information occurs in no column label the build raises.
C7_NoMatchingColumns ==
    (last.op = "buildPortfolio" /\ FromTable) =>
        /\ (raised = "ValueError: none of the stock names found")
               = (\A i \in 1..Len(InfoNames) : ~Occurs(InfoNames[i]))
        /\ (raised = "ValueError: none of the stock names found")
               => (returned = None /\ last.constructed = 0
                   /\ pf = NewPortfolio)
        /\ (\E i \in 1..Len(InfoNames) : ~Occurs(InfoNames[i]))
               => (raised # "none" /\ returned = None)

\* a table with columns, none of which contains the one name asked for
C7_Witness ==
    /\ last.op = "buildPortfolio"
    /\ FromTable
    /\ Len(TableColumns) >= 2
    /\ InfoNames = << <<"Z">> >>
    /\ raised = "ValueError: none of the stock names found"

\* the three labels tried for a name and a data column, in order
Candidates(name, col) ==
    << name,
       (IF StartsWith(name, Wiki) THEN name ELSE Wiki \o name) \o Dash \o col,
       name \o Dash \o col >>

Resolvable(name, col) ==
    \E n \in 1..3 : InList(Candidates(name, col)[n], TableColumns)

\* the first of the three labels that is a column of the table
FirstPresent(name, col) ==
    LET c == Candidates(name, col)
        n == CHOOSE n \in 1..3 :
                 /\ InList(c[n], TableColumns)
                 /\ \A m \in 1..(n - 1) : ~InList(c[m], TableColumns)
    IN  c[n]

\* C8: when the build from a table gets to the column resolution, it raises
\* the could-not-find ValueError exactly when for some name and data column
\* none of the three labels is a column of the table; otherwise the labels
\* picked are, name by name and data column by data column, the first of
\* the three that is a column.
C8_ColumnResolution ==
    (last.op = "buildPortfolio" /\ FromTable
        /\ \E i \in 1..Len(InfoNames) : Occurs(InfoNames[i])) =>
        LET allResolvable ==
                \A i \in 1..Len(InfoNames) : \A c \in 1..Len(DataColumns) :
                    Resolvable(InfoNames[i], DataColumns[c])
        IN  /\ (raised = "ValueError: could not find column labels")
                   = ~allResolvable
            /\ allResolvable =>
                   /\ Len(last.reqcolnames)
                          = Len(InfoNames) * Len(DataColumns)
                   /\ \A i \in 1..Len(InfoNames) :
                          \A c \in 1..Len(DataColumns) :
                              last.reqcolnames[(i - 1) * Len(DataColumns) + c]
                                  = FirstPresent(InfoNames[i], DataColumns[c])

\* the label with the prefix was picked from a table that also has the
\* label without it
C8_Witness ==
    /\ last.op = "buildPortfolio"
    /\ FromTable
    /\ InfoNames = << <<"A">> >>
    /\ ~InList(<<"A">>, TableColumns)
    /\ InList(Labels[3], TableColumns)
    /\ last.reqcolnames = << Labels[2] >>

\* what _getStocksDataColumns makes of the table of the call
Resolved == _getStocksDataColumns(request.kwargs.data, InfoNames, DataColumns)

\* the columns of df at the positions from..to, as a frame
FrameSlice(df, from, to) ==
    [index   |-> df.index,
     columns |-> SubSeq(df.columns, from, to),
     values  |-> SubSeq(df.values, from, to)]

\* C11: when every name and data column of the call resolves, the build
\* from a table returns a Portfolio in which the Stock of each row of
\* pf_information holds exactly the resolved columns of its own name, and
\* whose price table is the table of the call restricted to the resolved
\* columns, each of them once.
C11_RoundTrip ==
    (last.op = "buildPortfolio" /\ FromTable /\ Resolved.raised = "none") =>
        /\ raised = "none"
        /\ returned # None
        /\ Len(pf.stocks) = Len(InfoNames)
        /\ \A i \in 1..Len(InfoNames) :
               /\ pf.stocks[i][1] = InfoNames[i]
               /\ pf.stocks[i][2].data
                      = FrameSlice(Resolved.data,
                                   (i - 1) * Len(DataColumns) + 1,
                                   i * Len(DataColumns))
        /\ pf.data = Resolved.data
        /\ \A j, k \in 1..Len(pf.data.columns) :
               pf.data.columns[j] = pf.data.columns[k] => j = k

(***************************************************************************)
(* Claims about the price table self.data                                  *)
(***************************************************************************)

\* every addStock call so far returned
AllReturned == \A i \in 1..Len(calls) : calls[i].raised = "none"

\* C12: after addStock calls that all returned, the index of self.data is
\* the index of the price history of the stock added first.
C12_IndexOfFirstAdded ==
    (Len(calls) >= 1 /\ AllReturned)
        => pf.data.index = Called[1].data.index

\* C13: an addStock call on a Portfolio that has rows, with a stock whose
\* price history has another number of rows than self.data, raises the
\* ValueError of the insert, and self.data is as it was before the call.
C13_LengthMismatchRaises ==
    (last.op = "addStock" /\ last.before.portfolio # <<>>
        /\ Len(last.arg.data.index) # Len(last.before.data.index))
        => (raised = "ValueError: length of values"
            /\ pf.data = last.before.data)

\* a history of four dates was offered to a Portfolio of three dates
C13_Witness ==
    /\ last.op = "addStock"
    /\ last.arg = StockD
    /\ last.before.data.index = Dates
    /\ last.before.data.columns # <<>>
    /\ raised = "ValueError: length of values"

(***************************************************************************)
(* Claims about the cached statistics                                      *)
(***************************************************************************)

\* the value compExpectedReturn computes on p, and compVolatility
ExpectedReturnOf(p, freq) ==
    weightedMean(historicalMeanReturn(p.data, freq), compWeights(p).val.v).val

VolatilityOf(p, freq) ==
    weightedStdTimesSqrt(compCov(p), compWeights(p).val.v, freq).val

\* C14: a compExpectedReturn or compVolatility call that returns writes the
\* value it returns to expectedReturn or volatility and nothing else; a
\* compSharpe call that returns computes sharpeRatio from the two fields as
\* they are and writes only sharpe; so the field sharpe is always the
\* sharpeRatio of the expectedReturn and volatility that were in the fields
\* when compSharpe, or an addStock call that returned, last ran, whatever
\* was written to the two fields since.
C14_SharpeFromCachedFields ==
    /\ pf.sharpe = IF sharpeFrom = None THEN None
                   ELSE sharpeRatio(sharpeFrom.expReturn, sharpeFrom.vol,
                                    sharpeFrom.riskFreeRate).val
    /\ (last.op = "compExpectedReturn" /\ raised = "none") =>
           /\ returned = ExpectedReturnOf(last.before, last.arg)
           /\ pf = [last.before EXCEPT !.expectedReturn = returned]
    /\ (last.op = "compVolatility" /\ raised = "none") =>
           /\ returned = VolatilityOf(last.before, last.arg)
           /\ pf = [last.before EXCEPT !.volatility = returned]
    /\ (last.op = "compSharpe" /\ raised = "none") =>
           /\ returned = sharpeRatio(last.before.expectedReturn,
                                     last.before.volatility, last.arg).val
           /\ pf = [last.before EXCEPT !.sharpe = returned]
    /\ (last.op \in {"compExpectedReturn", "compVolatility", "compSharpe"}
           /\ raised # "none") => pf = last.before

\* expectedReturn was recomputed with another freq after sharpe was cached:
\* sharpe is no longer the sharpeRatio of the fields
C14_Witness ==
    /\ last.op = "compExpectedReturn"
    /\ raised = "none"
    /\ pf.expectedReturn # last.before.expectedReturn
    /\ pf.sharpe # None
    /\ pf.sharpe = last.before.sharpe
    /\ pf.sharpe # sharpeRatio(pf.expectedReturn, pf.volatility,
                               sharpeFrom.riskFreeRate).val

=============================================================================
